---- MODULE Spec2Model ----
(***************************************************************************)
(* A model of plumber's metaclass (src/src/plumber/_plumber.py).           *)
(*                                                                         *)
(* Spec     : Plumber.__init__ composing one class: the collection loop    *)
(*            over the plugins' attributes, then the loop that resolves    *)
(*            the end point of every pipeline, compiles it with            *)
(*            ``entrance`` and installs the result on the class.           *)
(* CallSpec : invoking a behaviour ``entrance`` compiled, frame by frame.  *)
(*                                                                         *)
(* The plugin tuple, the class body and the attributes the bases provide   *)
(* are inputs.  The class body and the bases are drawn in Init; the        *)
(* attributes of the plugins are drawn when the collection loop reads      *)
(* them (each attribute of each plugin is read once), and are recorded in  *)
(* ``plugins``.  Python objects are records with a ``kind`` field.         *)
(***************************************************************************)
EXTENDS Integers, Sequences, FiniteSets, TLC

\* ------------------------------------------------------------------ bounds
\* Longest plugin tuple (cls.__pipeline__) composed.
MaxPlugins == 3
\* Most attributes read from the plugins of one tuple.
MaxAttrs == 3
\* Most plumbing layers of a pipeline whose behaviour is invoked.
MaxLayers == 2
\* Most invocations of the layers' and the end point's functions in one use.
MaxCalls == 4
\* Attribute names the plugins, the class body and the bases may use.
Names == {"x", "y"}

VARIABLES
    pc,         \* where Plumber.__init__ is
    plugins,    \* the plugins read so far: plugins[i][n] is plugin i's
                \* attribute n as the loop read it (Absent: none read)
    dct,        \* the class body (the dct handed to type.__init__)
    bases,      \* what the base classes resolve, per name
    clsdict,    \* cls.__dict__
    pipelines,  \* the local ``pipelines``
    defaulted,  \* the keys of the local ``defaulted``
    todo,       \* names the second loop has still to visit
    err,        \* the exception that left __init__, or None
    pipe0,      \* CallSpec: the pipeline handed to ``entrance``
    attr,       \* CallSpec: the behaviour ``entrance`` returned
    stack,      \* CallSpec: the frames of the running call, outermost first
    trace,      \* CallSpec: every invocation made so far, in order
    raised,     \* CallSpec: the exception the call raised, or None
    called      \* CallSpec: how the behaviour was used ("" not yet)

compvars == <<pc, plugins, dct, bases, clsdict, pipelines, defaulted, todo, err>>
callvars == <<pipe0, attr, stack, trace, raised, called>>
vars == <<pc, plugins, dct, bases, clsdict, pipelines, defaulted, todo, err,
          pipe0, attr, stack, trace, raised, called>>

\* ----------------------------------------------------------- Python values
None == [kind |-> "None"]

\* A docstring: its lines (os.linesep.join concatenates them).
Str(lines) == [kind |-> "str", lines |-> lines]

\* A value the code never looks into: owner 0 is the class body, -1 the
\* bases, i > 0 plugin i.
Raw(owner, n) == [kind |-> "raw", owner |-> owner, name |-> n, doc |-> None]

\* A function written in plugin ``owner`` (0: the class, -1: a base).
Func(owner, n, role, doc) ==
    [kind |-> "function", owner |-> owner, name |-> n, role |-> role, doc |-> doc]

\* class CLOSED
CLOSED == [kind |-> "CLOSED"]

\* No attribute of that name in a plugin's __dict__ (or none read yet).
Absent == [kind |-> "absent"]

\* An attribute without a marker.
Plain == [kind |-> "plain"]

PlumbingCollision(n) == [kind |-> "PlumbingCollision", name |-> n]
AttributeError(n) == [kind |-> "AttributeError", name |-> n]
TypeError(what) == [kind |-> "TypeError", name |-> what]

Last(s) == s[Len(s)]
Front(s) == SubSeq(s, 1, Len(s) - 1)

\* --------------------------------------------------------------- markers
isextensiondecor(a) == a.kind \in {"default", "extend"}

\* unwrap that forgets to strip the markers
unwrap_kept(a) == a

\* extensiondecor.unwrap
RECURSIVE unwrap(_)
unwrap(a) == IF ~isextensiondecor(a) THEN a ELSE unwrap(a.attr)

\* extensiondecor.__init__, for class default and class extend
default(a) == [kind |-> "default", attr |-> unwrap(a)]
extend(a) == [kind |-> "extend", attr |-> unwrap(a)]

\* class plumbmethod(classmethod), around a function
plumbmethod(f) == [kind |-> "plumbmethod", func |-> f]

\* class plumbproperty(property): fget, fset, fdel are functions or None
plumbproperty(fget, fset, fdel) ==
    [kind |-> "plumbproperty", fget |-> fget, fset |-> fset, fdel |-> fdel]

\* getattr(plugin, name) on a classmethod: a method bound to the plugin
BoundMethod(i, decor) ==
    [kind |-> "instancemethod", im_self |-> i, im_func |-> decor.func,
     doc |-> decor.func.doc]

\* ------------------------------------------------------------- merge_doc
join(a, b) == Str(a.lines \o b.lines)

RECURSIVE merge_doc(_)
merge_doc(objs) ==
    LET first == Head(objs) IN
    IF Len(objs) = 1 THEN first.doc
    ELSE LET rest_doc == merge_doc(Tail(objs)) IN
         IF rest_doc = None THEN first.doc
         ELSE IF first.doc = None THEN rest_doc
         ELSE join(first.doc, rest_doc)

\* -------------------------------------------------------------- entrance
isplumbproperty(e) == e.kind = "plumbproperty"
isMethodType(e) == e.kind = "instancemethod"

\* The property ``entrance`` builds from its three closures.
PropertyEntrance(plumbattr, next) ==
    [kind |-> "property",
     fget |-> [kind |-> "get_entrance", plumbattr |-> plumbattr, next |-> next],
     fset |-> [kind |-> "set_entrance", plumbattr |-> plumbattr, next |-> next],
     fdel |-> [kind |-> "del_entrance", plumbattr |-> plumbattr, next |-> next],
     doc |-> None]

\* merge_doc(plumbattr, _next) instead of merge_doc(_next, plumbattr)
MethodEntrance_outerdoc(plumbattr, next) ==
    [kind |-> "_entrance", plumbattr |-> plumbattr, next |-> next,
     doc |-> merge_doc(<<plumbattr, next>>)]

\* The function ``entrance`` builds around a plumbing method.
MethodEntrance(plumbattr, next) ==
    [kind |-> "_entrance", plumbattr |-> plumbattr, next |-> next,
     doc |-> merge_doc(<<next, plumbattr>>)]

\* pipe.pop() instead of pipe.pop(0)
PopLast(pipe) == [plumbattr |-> Last(pipe), rest |-> Front(pipe)]

\* pipe.pop(0): the element taken and what is left
PopFirst(pipe) == [plumbattr |-> Head(pipe), rest |-> Tail(pipe)]

\* entrance(name, pipe): the behaviour compiled, or the TypeError raised.
RECURSIVE entrance(_, _)
entrance(name, pipe) ==
    IF Len(pipe) = 1 THEN pipe[1]
    ELSE LET popped == PopFirst(pipe)
             plumbattr == popped.plumbattr
             next == entrance(name, popped.rest)
         IN  IF next.kind = "TypeError" THEN next
             ELSE IF isplumbproperty(plumbattr)
                  THEN PropertyEntrance(plumbattr, next)
             ELSE IF isMethodType(plumbattr)
                  THEN MethodEntrance(plumbattr, next)
             ELSE TypeError(plumbattr.kind)

\* ------------------------------------------------------- Plumber.__init__
\* The declarations plugin i may hold under name n.
Decors(i, n) ==
    LET v == Raw(i, n) IN
    {Plain,
     default(v), default(default(v)), default(extend(v)),
     extend(v), extend(extend(v)), extend(default(v)),
     plumbmethod(Func(i, n, "method", None)),
     plumbproperty(Func(i, n, "fget", None), Func(i, n, "fset", None), None)}

\* A dict over the names S whose values the class body (owner 0) or the
\* bases (owner -1) define.
DictOf(owner, S) == [n \in S |-> Raw(owner, n)]

\* dict.setdefault(name, [])
setdefault(d, n) == IF n \in DOMAIN d THEN d ELSE (n :> <<>>) @@ d

\* setattr(cls, name, value)
setattr(d, n, v) == (n :> v) @@ d

\* pipe[-1] is CLOSED
IsClosed(pipe) == pipe # <<>> /\ Last(pipe) = CLOSED

\* the marker appended without the test
Close_always(pipe) == Append(pipe, CLOSED)

\* line 183: ``if not pipe or pipe[-1] is not CLOSED: pipe.append(CLOSED)``
Close(pipe) == IF pipe = <<>> \/ Last(pipe) # CLOSED THEN Append(pipe, CLOSED) ELSE pipe

\* the collision test reading the class body instead of the live __dict__
ExtendCollides_body(n) == n \in DOMAIN dct /\ n \notin defaulted

\* the collision test asking whether any name was defaulted
ExtendCollides_any(n) == n \in DOMAIN clsdict /\ defaulted = {}

\* lines 190-191: an extend collides with an attribute on the class, unless
\* a default provided it
ExtendCollides(n) == n \in DOMAIN clsdict /\ n \notin defaulted

\* a default that overwrites whatever is there
DefaultInstalls_always(n) == TRUE

\* a default that also replaces an earlier default
DefaultInstalls_flagged(n) == n \notin DOMAIN clsdict \/ n \in defaulted

\* the inverted test
DefaultInstalls_inverted(n) == n \in DOMAIN clsdict

\* line 200: a default is set if there is no attribute yet
DefaultInstalls(n) == n \notin DOMAIN clsdict

\* only a default that was installed closes
ClosedCollides_defaulted(n) == n \in defaulted

\* line 203: nothing behind a closed pipeline
ClosedCollides(n) == n \in DOMAIN pipelines /\ IsClosed(pipelines[n])

\* the missing kind test
MethodCollides_never(pipe) == FALSE

\* line 207
MethodCollides(pipe) == pipe # <<>> /\ isplumbproperty(Last(pipe))

\* the kind test left out
PropertyCollides_never(pipe) == FALSE

\* line 215
PropertyCollides(pipe) == pipe # <<>> /\ ~isplumbproperty(Last(pipe))

\* the flag left in place
pop_kept(d, n) == d

\* line 197: ``defaulted.pop(name, None)``
pop(d, n) == d \ {n}

\* a lookup that prefers the bases
getattr_basesfirst(n) ==
    IF n \in DOMAIN bases THEN bases[n]
    ELSE IF n \in DOMAIN clsdict THEN clsdict[n]
    ELSE AttributeError(n)

\* getattr(cls, name, None); None has a __doc__ of None
getattr_default(n) ==
    IF n \in DOMAIN clsdict THEN clsdict[n]
    ELSE IF n \in DOMAIN bases THEN bases[n]
    ELSE [kind |-> "None", doc |-> None]

\* getattr(cls, name): the class's own __dict__, then its bases; the value
\* found, or the AttributeError raised
getattr(n) ==
    IF n \in DOMAIN clsdict THEN clsdict[n]
    ELSE IF n \in DOMAIN bases THEN bases[n]
    ELSE AttributeError(n)

\* The attributes read from the plugins so far.
NumAttrs ==
    Cardinality({p \in (1..Len(plugins)) \X Names : plugins[p[1]][p[2]] # Absent})

Idle == /\ pipe0 = <<>>
        /\ attr = None
        /\ stack = <<>>
        /\ trace = <<>>
        /\ raised = None
        /\ called = ""

Init ==
    /\ pc = "start"
    /\ plugins = <<>>
    /\ dct \in {DictOf(0, S) : S \in SUBSET Names}
    /\ bases \in {DictOf(-1, S) : S \in {{}, Names}}
    /\ clsdict = dct
    /\ pipelines = <<>>
    /\ defaulted = {}
    /\ todo = {}
    /\ err = None
    /\ Idle

\* lines 168-169: a class that declares no __pipeline__ is left alone
NoPipeline ==
    /\ pc = "start"
    /\ pc' = "inactive"
    /\ UNCHANGED <<plugins, dct, bases, clsdict, pipelines, defaulted, todo, err>>
    /\ UNCHANGED callvars

\* lines 170-178: the plumber gets active
Begin ==
    /\ pc = "start"
    /\ pc' = "collect"
    /\ pipelines' = <<>>
    /\ defaulted' = {}
    /\ UNCHANGED <<plugins, dct, bases, clsdict, todo, err>>
    /\ UNCHANGED callvars

\* line 179: the outer loop takes the next plugin
NextPlugin ==
    /\ pc = "collect"
    /\ Len(plugins) < MaxPlugins
    /\ plugins' = Append(plugins, [n \in Names |-> Absent])
    /\ UNCHANGED <<pc, dct, bases, clsdict, pipelines, defaulted, todo, err>>
    /\ UNCHANGED callvars

\* ``raise exc`` out of __init__
Raise(exc) == pc' = "failed" /\ err' = exc

\* lines 180-217: one pass of the inner loop, over attribute n of the
\* current plugin, which holds decor
ProcessAttr(n, decor) ==
    LET i == Len(plugins) IN
    /\ pc = "collect"
    /\ i >= 1
    /\ plugins[i][n] = Absent
    /\ NumAttrs < MaxAttrs
    /\ plugins' = [plugins EXCEPT ![i][n] = decor]
    /\ IF isextensiondecor(decor)
       THEN LET pipes == setdefault(pipelines, n) IN
            /\ pipelines' = [pipes EXCEPT ![n] = Close(pipes[n])]
            /\ IF decor.kind = "extend"
               THEN IF ExtendCollides(n)
                    THEN /\ Raise(PlumbingCollision(n))
                         /\ UNCHANGED <<clsdict, defaulted>>
                    ELSE /\ clsdict' = setattr(clsdict, n, decor.attr)
                         /\ defaulted' = pop(defaulted, n)
                         /\ UNCHANGED <<pc, err>>
               ELSE IF DefaultInstalls(n)
                    THEN /\ clsdict' = setattr(clsdict, n, decor.attr)
                         /\ defaulted' = defaulted \cup {n}
                         /\ UNCHANGED <<pc, err>>
                    ELSE UNCHANGED <<pc, err, clsdict, defaulted>>
       ELSE IF ClosedCollides(n)
       THEN /\ Raise(PlumbingCollision(n))
            /\ UNCHANGED <<clsdict, defaulted, pipelines>>
       ELSE IF decor.kind = "plumbmethod"
       THEN LET pipes == setdefault(pipelines, n) IN
            IF MethodCollides(pipes[n])
            THEN /\ Raise(PlumbingCollision(n))
                 /\ pipelines' = pipes
                 /\ UNCHANGED <<clsdict, defaulted>>
            ELSE /\ pipelines' = [pipes EXCEPT ![n] = Append(@, BoundMethod(i, decor))]
                 /\ UNCHANGED <<pc, err, clsdict, defaulted>>
       ELSE IF decor.kind = "plumbproperty"
       THEN LET pipes == setdefault(pipelines, n) IN
            IF PropertyCollides(pipes[n])
            THEN /\ Raise(PlumbingCollision(n))
                 /\ pipelines' = pipes
                 /\ UNCHANGED <<clsdict, defaulted>>
            ELSE /\ pipelines' = [pipes EXCEPT ![n] = Append(@, decor)]
                 /\ UNCHANGED <<pc, err, clsdict, defaulted>>
       ELSE UNCHANGED <<pc, err, clsdict, defaulted, pipelines>>
    /\ UNCHANGED <<dct, bases, todo>>
    /\ UNCHANGED callvars

\* line 227: the plugins are exhausted; the second loop starts
EndCollect ==
    /\ pc = "collect"
    /\ pc' = "resolve"
    /\ todo' = DOMAIN pipelines
    /\ UNCHANGED <<plugins, dct, bases, clsdict, pipelines, defaulted, err>>
    /\ UNCHANGED callvars

\* the marker left in the pipeline
Unclose_kept(pipe) == pipe

\* lines 229-230: remove the CLOSED marker
Unclose(pipe) == IF Last(pipe) = CLOSED THEN Front(pipe) ELSE pipe

\* lines 227-245: one pass of the second loop, over name n
ResolveName(n) ==
    LET pipe == Unclose(pipelines[n])
        end_point == getattr(n)
    IN
    /\ pc = "resolve"
    /\ n \in todo
    /\ todo' = todo \ {n}
    /\ IF end_point.kind = "AttributeError"
       THEN /\ Raise(end_point)
            /\ pipelines' = [pipelines EXCEPT ![n] = pipe]
            /\ UNCHANGED clsdict
       ELSE LET compiled == entrance(n, Append(pipe, end_point))
            IN  \* entrance pops the pipe down to its end point
                /\ pipelines' = [pipelines EXCEPT ![n] = <<end_point>>]
                /\ IF compiled.kind = "TypeError"
                   THEN Raise(compiled) /\ UNCHANGED clsdict
                   ELSE /\ clsdict' = setattr(clsdict, n, compiled)
                        /\ UNCHANGED <<pc, err>>
    /\ UNCHANGED <<plugins, dct, bases, defaulted>>
    /\ UNCHANGED callvars

\* __init__ returns: the class is composed
Return ==
    /\ pc = "resolve"
    /\ todo = {}
    /\ pc' = "done"
    /\ UNCHANGED <<plugins, dct, bases, clsdict, pipelines, defaulted, todo, err>>
    /\ UNCHANGED callvars

Next ==
    \/ NoPipeline
    \/ Begin
    \/ NextPlugin
    \/ \E n \in Names : \E decor \in Decors(Len(plugins), n) : ProcessAttr(n, decor)
    \/ EndCollect
    \/ \E n \in Names : ResolveName(n)
    \/ Return

Spec == Init /\ [][Next]_vars

\* ----------------------------------------------- using a compiled behaviour
\* What a call passes besides functions: the plugin class, the instance, a value.
Class(i) == [kind |-> "class", plugin |-> i]
Self == [kind |-> "instance"]
Val == [kind |-> "value"]
NoNext == [kind |-> "nonext"]

Accessors == {"fget", "fset", "fdel"}

\* A docstring written in ``owner``, or none.
DocOf(owner, has) == IF has THEN Str(<<owner>>) ELSE None

\* The pipeline entry of plugin i's plumbing method (line 212).
MethodLayer(i, has) ==
    BoundMethod(i, plumbmethod(Func(i, "x", "method", DocOf(i, has))))

\* The pipeline entry of plugin i's plumbing property (line 217), which
\* supplies the accessors in s.
PropertyLayer(i, s) ==
    plumbproperty(IF "fget" \in s THEN Func(i, "x", "fget", None) ELSE None,
                  IF "fset" \in s THEN Func(i, "x", "fset", None) ELSE None,
                  IF "fdel" \in s THEN Func(i, "x", "fdel", None) ELSE None)

\* End points: a function of the class, a property of the class supplying
\* the accessors in s, a value that is neither.
MethodEndpoint(has) == Func(0, "x", "method", DocOf(0, has))
PropertyEndpoint(s) ==
    [kind |-> "property",
     fget |-> IF "fget" \in s THEN Func(0, "x", "fget", None) ELSE None,
     fset |-> IF "fset" \in s THEN Func(0, "x", "fset", None) ELSE None,
     fdel |-> IF "fdel" \in s THEN Func(0, "x", "fdel", None) ELSE None,
     doc |-> None]

\* The pipelines the second loop hands to ``entrance``: plumbing methods
\* only or plumbing properties only, then the end point.
MethodPipes ==
    UNION {{[i \in 1..(k + 1) |-> IF i <= k THEN MethodLayer(i, d[i])
                                  ELSE MethodEndpoint(d[i])]
            : d \in [1..(k + 1) -> BOOLEAN]} : k \in 0..MaxLayers}
PropertyPipes ==
    UNION {{Append([i \in 1..k |-> PropertyLayer(i, s[i])], e)
            : s \in [1..k -> SUBSET Accessors],
              e \in {PropertyEndpoint(t) : t \in SUBSET Accessors}
                    \cup {Raw(0, "x")}} : k \in 1..MaxLayers}

CallInit ==
    /\ pipe0 \in MethodPipes \cup PropertyPipes
    /\ attr = entrance("x", pipe0)
    /\ stack = <<>>
    /\ trace = <<>>
    /\ raised = None
    /\ called = ""
    /\ pc = "done"
    /\ plugins = <<>>
    /\ dct = <<>>
    /\ bases = <<>>
    /\ clsdict = setattr(<<>>, "x", attr)
    /\ pipelines = setattr(<<>>, "x", <<Last(pipe0)>>)
    /\ defaulted = {}
    /\ todo = {}
    /\ err = None

\* The arguments a use passes after the functions: the instance, and the
\* value when setting.
Rest(a) == IF a = "fset" THEN <<Self, Val>> ELSE <<Self>>

\* The accessor a closure of a compiled property forwards.
AccessorOf(c) ==
    IF c.kind = "get_entrance" THEN "fget"
    ELSE IF c.kind = "set_entrance" THEN "fset" ELSE "fdel"

\* lines 139-140: ``plumbattr(_next, self, *args, **kw)``; the bound
\* classmethod puts its plugin first
MethodArgs(c, rest) == <<Class(c.plumbattr.im_self), c.next>> \o rest

\* lines 132, 134, 136: ``plumbattr.fget(_next.fget, self)``
AccessorArgs(c, rest) == <<c.next[AccessorOf(c)]>> \o rest

\* The function a closure of a compiled property calls: lines 132, 134, 136
AccessorFunc(c) == c.plumbattr[AccessorOf(c)]

\* A function starts running: f with args, having ``next`` to call on.
Enter(f, args, next) ==
    /\ trace' = Append(trace, [fn |-> f, args |-> args])
    /\ stack' = Append(stack, [fn |-> f, next |-> next])
    /\ UNCHANGED raised

\* An exception ends the use.
RaiseCall(exc) ==
    /\ raised' = exc
    /\ stack' = <<>>
    /\ UNCHANGED trace

\* Calling c with the arguments ``rest``.
Invoke(c, rest) ==
    IF c = None THEN RaiseCall(TypeError("NoneType"))
    ELSE IF c.kind = "_entrance"
    THEN Enter(c.plumbattr.im_func, MethodArgs(c, rest), c.next)
    ELSE IF c.kind \in {"get_entrance", "set_entrance", "del_entrance"}
    THEN IF c.next.kind # "property"
         THEN RaiseCall(AttributeError(AccessorOf(c)))
         ELSE IF AccessorFunc(c) = None
         THEN RaiseCall(TypeError("NoneType"))
         ELSE Enter(AccessorFunc(c), AccessorArgs(c, rest), c.next[AccessorOf(c)])
    ELSE IF c.kind = "function"
    THEN Enter(c, rest, NoNext)
    ELSE RaiseCall(TypeError(c.kind))

\* The behaviour is used on an instance: called, or read, set or deleted.
Use(a) ==
    /\ called = ""
    /\ called' = a
    /\ IF attr.kind = "property"
       THEN /\ a \in Accessors
            /\ IF attr[a] = None
               THEN RaiseCall(AttributeError(a))
               ELSE Invoke(attr[a], Rest(a))
       ELSE /\ a = "call"
            /\ Invoke(attr, Rest(a))
    /\ UNCHANGED <<pipe0, attr>>
    /\ UNCHANGED compvars

\* The running function calls the ``_next`` it was handed.
CallNext ==
    /\ stack # <<>>
    /\ raised = None
    /\ Last(stack).next # NoNext
    /\ Len(trace) < MaxCalls
    /\ Invoke(Last(stack).next, Rest(called))
    /\ UNCHANGED <<pipe0, attr, called>>
    /\ UNCHANGED compvars

\* The running function returns.
ReturnFrame ==
    /\ stack # <<>>
    /\ raised = None
    /\ stack' = Front(stack)
    /\ UNCHANGED <<pipe0, attr, trace, raised, called>>
    /\ UNCHANGED compvars

CallStep ==
    \/ \E a \in Accessors \cup {"call"} : Use(a)
    \/ CallNext
    \/ ReturnFrame

CallSpec == CallInit /\ [][CallStep]_vars

\* ====================================================== the claims
Extensions == {"default", "extend"}
Plumbings == {"plumbmethod", "plumbproperty"}

\* Plugin i was read and holds a declaration of one of ``kinds`` under n.
Declares(i, n, kinds) == i \in 1..Len(plugins) /\ plugins[i][n].kind \in kinds

\* name in pipelines with an entry that is not the CLOSED marker
HasPlumbing(n) ==
    n \in DOMAIN pipelines /\ \E k \in 1..Len(pipelines[n]) : pipelines[n][k] # CLOSED

\* ---- C1 ---------------------------------------------------------------
NumLayers == Len(pipe0) - 1
IsMethodChain == pipe0 \in MethodPipes /\ NumLayers >= 1
\* The function of layer j; layer NumLayers + 1 is the end point.
LayerFn(j) == IF j <= NumLayers THEN pipe0[j].im_func ELSE pipe0[j]
LayerOf(f) == CHOOSE j \in 1..(NumLayers + 1) : LayerFn(j) = f

\* C1: using the behaviour compiled from plumbing methods p1..pk and the end
\* point runs p1's function first, with its plugin and, as next, the
\* behaviour compiled from (p2..pk, end point); every layer is handed the
\* behaviour compiled from what follows it; the running frames are always
\* layers 1, 2, .. j in pipeline order, so layer i+1 only ever runs inside
\* layer i's call of its next, and the end point only under all k layers.
C1_MethodChainOrder ==
    IsMethodChain =>
        /\ attr.kind = "_entrance"
        /\ called # "" =>
              /\ trace # <<>>
              /\ trace[1] = [fn |-> pipe0[1].im_func,
                             args |-> <<Class(pipe0[1].im_self),
                                        entrance("x", Tail(pipe0)), Self>>]
        /\ \A j \in 1..Len(stack) : stack[j].fn = LayerFn(j)
        /\ \A m \in 1..Len(trace) :
              LET j == LayerOf(trace[m].fn) IN
              /\ j <= NumLayers =>
                    /\ trace[m].args[1] = Class(pipe0[j].im_self)
                    /\ trace[m].args[2] =
                          entrance("x", SubSeq(pipe0, j + 1, NumLayers + 1))
              /\ j > 1 => \E m2 \in 1..(m - 1) : trace[m2].fn = LayerFn(j - 1)

\* Two layers and the end point, each entered once, the end point last.
C1_Witness ==
    /\ IsMethodChain
    /\ NumLayers = 2
    /\ Len(trace) = 3
    /\ trace[3].fn = LayerFn(3)
    /\ Len(stack) = 3

\* ---- C2 ---------------------------------------------------------------
\* C2: once a plugin's plumbmethod or plumbproperty for a name has been read
\* after an earlier plugin's default or extend for that name, composition
\* has failed with PlumbingCollision for that name, whether or not the
\* default's value was installed.
C2_NoPlumbBehindClosed ==
    \A n \in Names : \A i, j \in 1..Len(plugins) :
        (i < j /\ Declares(i, n, Extensions) /\ Declares(j, n, Plumbings))
            => pc = "failed" /\ err = PlumbingCollision(n)

\* A default the class body kept from being installed, then a plumbing.
C2_Witness ==
    \E n \in DOMAIN dct :
        /\ Declares(1, n, {"default"})
        /\ Declares(2, n, Plumbings)
        /\ clsdict[n] = dct[n]
        /\ pc = "failed"

\* ---- C3 ---------------------------------------------------------------
\* C3: once a second extend for a name has been read, composition has failed
\* with PlumbingCollision for that name, whatever was read before or
\* between the two; so no composition that has not failed read two extends
\* for one name.
C3_SecondExtendCollides ==
    \A n \in Names :
        /\ \A i, j \in 1..Len(plugins) :
              (i < j /\ Declares(i, n, {"extend"}) /\ Declares(j, n, {"extend"}))
                  => pc = "failed" /\ err = PlumbingCollision(n)
        /\ pc # "failed" =>
              Cardinality({i \in 1..Len(plugins) : Declares(i, n, {"extend"})}) <= 1

\* extend, default, extend for one name.
C3_Witness ==
    \E n \in Names :
        /\ Declares(1, n, {"extend"})
        /\ Declares(2, n, {"default"})
        /\ Declares(3, n, {"extend"})
        /\ err = PlumbingCollision(n)

\* ---- C4 ---------------------------------------------------------------
\* Plugin j's extend for n is the first extend for n, follows a default for
\* n, and nothing but defaults for n was read after it.
DefaultThenExtend(n, j) ==
    /\ n \notin DOMAIN dct
    /\ Declares(j, n, {"extend"})
    /\ \E i \in 1..(j - 1) : Declares(i, n, {"default"})
    /\ \A i \in 1..(j - 1) : ~Declares(i, n, {"extend"})
    /\ \A i \in (j + 1)..Len(plugins) : Declares(i, n, {"default", "absent"})

\* C4: when the class body does not define the name, a default followed by
\* a later plugin's extend raises no collision for the name; the class then
\* holds the extend's unwrapped value, and that value is the end point the
\* second loop resolves.
C4_ExtendOverridesDefault ==
    \A n \in Names : \A j \in 1..Len(plugins) :
        DefaultThenExtend(n, j) =>
            /\ err # PlumbingCollision(n)
            /\ n \in DOMAIN pipelines
            /\ IsClosed(pipelines[n]) => clsdict[n] = Raw(j, n)
            /\ ~IsClosed(pipelines[n]) => pipelines[n] = <<Raw(j, n)>>

C4_Witness ==
    \E n \in Names :
        /\ DefaultThenExtend(n, 2)
        /\ pc = "done"
        /\ pipelines[n] = <<Raw(2, n)>>
        /\ clsdict[n] = Raw(2, n)

\* ---- C5 ---------------------------------------------------------------
\* C5: once an extend for a name the class body defines has been read, in
\* whatever plugin, composition has failed with PlumbingCollision for that
\* name, also when an earlier plugin declared a default for it; and such a
\* default set no was-defaulted flag.
C5_ExtendCollidesWithBody ==
    \A n \in DOMAIN dct :
        /\ n \notin defaulted
        /\ \A j \in 1..Len(plugins) :
              Declares(j, n, {"extend"}) => pc = "failed" /\ err = PlumbingCollision(n)

\* A default, then an extend in the third plugin, for a name of the body.
C5_Witness ==
    \E n \in DOMAIN dct :
        /\ Declares(1, n, {"default"})
        /\ Declares(3, n, {"extend"})
        /\ err = PlumbingCollision(n)

\* ---- C6 ---------------------------------------------------------------
\* C6: once a plumbmethod and a plumbproperty for one name have been read
\* from two plugins, in either order, composition has failed with
\* PlumbingCollision for that name.
C6_MethodPropertyMix ==
    \A n \in Names : \A i, j \in 1..Len(plugins) :
        (Declares(i, n, {"plumbmethod"}) /\ Declares(j, n, {"plumbproperty"}))
            => pc = "failed" /\ err = PlumbingCollision(n)

\* Two entries of one kind, then the other kind; both orders are reachable.
C6_Witness ==
    \E n \in Names :
        /\ Declares(1, n, {"plumbmethod"})
        /\ Declares(2, n, {"plumbmethod"})
        /\ Declares(3, n, {"plumbproperty"})
        /\ err = PlumbingCollision(n)

\* ---- C7 ---------------------------------------------------------------
\* A name the second loop has still to visit, with a plumbing entry and
\* nothing on the class or its bases.
MissingEndpoint ==
    \E n \in todo :
        /\ HasPlumbing(n)
        /\ n \notin DOMAIN clsdict
        /\ n \notin DOMAIN bases

\* C7: when the plugins are exhausted and a name with a plumbing entry
\* resolves no attribute, every step either fails the composition with the
\* AttributeError of the lookup or leaves such a name to be visited: __init__
\* never returns, so no behaviour without an end point is ever installed.
C7_MissingEndpointFailsBuild ==
    [][(pc = "resolve" /\ MissingEndpoint) =>
           \/ pc' = "failed" /\ err'.kind = "AttributeError"
           \/ pc' = "resolve" /\ MissingEndpoint']_vars

\* The lookup failed after another name's chain was installed.
C7_Witness ==
    /\ pc = "failed"
    /\ err.kind = "AttributeError"
    /\ HasPlumbing(err.name)
    /\ \E m \in DOMAIN clsdict : clsdict[m].kind = "_entrance"

\* ---- C8 ---------------------------------------------------------------
IsPropertyChain == pipe0 \in PropertyPipes

\* C8 (the claim): using accessor a of a property compiled from plumbing
\* properties skips the layers that do not supply a; when the end point
\* supplies a, the use raises nothing.
C8_AccessorChainsIndependent ==
    (IsPropertyChain /\ called \in Accessors /\ Last(pipe0).kind = "property"
        /\ Last(pipe0)[called] # None)
        => raised = None

\* ---- C9 ---------------------------------------------------------------
\* The step reads a plain attribute of the current plugin.
ReadsPlain ==
    /\ pc = "collect"
    /\ Len(plugins) >= 1
    /\ Len(plugins') = Len(plugins)
    /\ \E n \in Names : plugins[Len(plugins)][n] = Absent
                        /\ plugins'[Len(plugins)][n] = Plain

\* C9 (the claim): reading a plain attribute changes no pipeline, no
\* was-defaulted flag, nothing on the class, and raises nothing.
C9_PlainIsIgnored ==
    [][ReadsPlain => UNCHANGED <<pipelines, defaulted, clsdict, pc, err>>]_vars

\* ---- C10 --------------------------------------------------------------
\* C10 (the claim): a composition that failed left on the class only what
\* its body defined.
C10_AllOrNothing == pc = "failed" => clsdict = dct

\* ---- C11 --------------------------------------------------------------
\* C11 (the claim): every accessor of a plumbing property's layer is called
\* with its declaring plugin first, then the next accessor, the instance
\* and, when setting, the value.
C11_AccessorGetsPlugin ==
    IsPropertyChain =>
        \A m \in 1..Len(trace) :
            LET f == trace[m].fn IN
            f.owner >= 1 =>
                /\ Len(trace[m].args) = Len(Rest(called)) + 2
                /\ trace[m].args[1] = Class(f.owner)

\* ---- C12 --------------------------------------------------------------
\* The lines of the docstrings of objs, in order, without the absent ones.
RECURSIVE DocLines(_)
DocLines(objs) ==
    IF objs = <<>> THEN <<>>
    ELSE (IF Head(objs).doc = None THEN <<>> ELSE Head(objs).doc.lines)
         \o DocLines(Tail(objs))

\* The docstring made of those lines: none when no object has one.
DocFrom(objs) == IF DocLines(objs) = <<>> THEN None ELSE Str(DocLines(objs))

Reverse(q) == [i \in 1..Len(q) |-> q[Len(q) + 1 - i]]

\* C12 (the claim): the documentation of the compiled method chain lists
\* the descriptions from the outermost layer p1 to the end point.
C12_DocOuterFirst == IsMethodChain => attr.doc = DocFrom(pipe0)

\* C12 (amended): the documentation of the compiled method chain lists the
\* descriptions from the end point outwards to p1, the end point's first and
\* p1's last, without the absent ones, one line separator between two.
C12_DocInnerFirst == IsMethodChain => attr.doc = DocFrom(Reverse(pipe0))

\* Two documented layers around a documented end point.
C12_Witness ==
    /\ IsMethodChain
    /\ NumLayers = 2
    /\ \A j \in 1..3 : pipe0[j].doc # None
    /\ attr.doc = Str(<<0, 2, 1>>)

\* ---- C13 --------------------------------------------------------------
\* The step reads, under name n of the current plugin, a declaration of one
\* of ``kinds``.
Reads(n, kinds) ==
    /\ pc = "collect"
    /\ Len(plugins) >= 1
    /\ Len(plugins') = Len(plugins)
    /\ plugins[Len(plugins)][n] = Absent
    /\ plugins'[Len(plugins)][n].kind \in kinds

\* The earliest plugin read that declares a default for n.
FirstDefault(n) ==
    CHOOSE i \in 1..Len(plugins) :
        /\ Declares(i, n, {"default"})
        /\ \A j \in 1..(i - 1) : ~Declares(j, n, {"default"})

\* n is not of the class body, has a default and no extend.
OnlyDefaults(n) ==
    /\ n \notin DOMAIN dct
    /\ \E i \in 1..Len(plugins) : Declares(i, n, {"default"})
    /\ \A i \in 1..Len(plugins) : ~Declares(i, n, {"extend"})

\* C13: of several defaults for a name that has no extend and is not of the
\* class body, the class holds the value of the earliest plugin's and the
\* name stays flagged as defaulted; reading a further default raises
\* nothing and changes neither the class's attributes nor the flags.
C13_FirstDefaultWins ==
    /\ [](\A n \in Names :
            OnlyDefaults(n) =>
                /\ n \in defaulted
                /\ n \in DOMAIN pipelines
                /\ IsClosed(pipelines[n]) => clsdict[n] = Raw(FirstDefault(n), n)
                /\ ~IsClosed(pipelines[n]) => pipelines[n] = <<Raw(FirstDefault(n), n)>>)
    /\ [][\A n \in Names :
            (Reads(n, {"default"}) /\ n \in defaulted)
                => UNCHANGED <<clsdict, defaulted, pc, err>>]_vars

\* Three defaults for one name; the first plugin's is the end point.
C13_Witness ==
    \E n \in Names :
        /\ OnlyDefaults(n)
        /\ \A i \in 1..3 : Declares(i, n, {"default"})
        /\ pc = "done"
        /\ pipelines[n] = <<Raw(1, n)>>
        /\ clsdict[n] = Raw(1, n)

\* ---- C14 --------------------------------------------------------------
\* No plugin read declares a plumbing for n.
NoPlumbingDeclared(n) == \A i \in 1..Len(plugins) : ~Declares(i, n, Plumbings)

\* The second loop has passed n and found its end point.
Resolved(n) ==
    /\ n \in DOMAIN pipelines
    /\ Len(pipelines[n]) = 1
    /\ pipelines[n][1].kind = "raw"

\* C14: a name whose pipeline holds no plumbing entry is passed by the
\* second loop without an error, and what is installed under it is the very
\* end point that was resolved, the value the class held before, with no
\* layer around it.
C14_EmptyPipelineInstallsEndpoint ==
    /\ [](\A n \in DOMAIN pipelines :
            (NoPlumbingDeclared(n) /\ ~IsClosed(pipelines[n])) =>
                /\ Resolved(n)
                /\ clsdict[n] = pipelines[n][1])
    /\ [][\A n \in Names :
            (pc = "resolve" /\ n \in todo /\ n \notin todo' /\ NoPlumbingDeclared(n))
                => /\ pc' = "resolve"
                   /\ n \in DOMAIN clsdict
                   /\ clsdict'[n] = clsdict[n]
                   /\ pipelines'[n] = <<clsdict[n]>>]_vars

\* A name with a default only and one with an extend only, both installed.
C14_Witness ==
    /\ pc = "done"
    /\ \A n \in Names : n \in DOMAIN pipelines /\ NoPlumbingDeclared(n)
    /\ \E n \in Names : clsdict[n] = Raw(1, n) /\ Declares(1, n, {"default"})
    /\ \E n \in Names : clsdict[n] = Raw(2, n) /\ Declares(2, n, {"extend"})

\* ---- C15 --------------------------------------------------------------
HasExtend(n) == \E i \in 1..Len(plugins) : Declares(i, n, {"extend"})
HasDefault(n) == \E i \in 1..Len(plugins) : Declares(i, n, {"default"})
TheExtend(n) == CHOOSE i \in 1..Len(plugins) : Declares(i, n, {"extend"})

\* The end point by the priorities: an extend's value, the class body's,
\* the earliest default's, the bases'.
PriorityEndpoint(n) ==
    IF HasExtend(n) THEN Raw(TheExtend(n), n)
    ELSE IF n \in DOMAIN dct THEN Raw(0, n)
    ELSE IF HasDefault(n) THEN Raw(FirstDefault(n), n)
    ELSE Raw(-1, n)

\* Plugin j extends n, which the class body does not define, the bases do,
\* and no other plugin extends or defaults.
ExtendsInherited(n, j) ==
    /\ n \in DOMAIN bases \ DOMAIN dct
    /\ Declares(j, n, {"extend"})
    /\ \A i \in 1..Len(plugins) \ {j} : ~Declares(i, n, Extensions)
    /\ \A i \in (j + 1)..Len(plugins) : Declares(i, n, {"absent"})

\* C15: unless the name collided, the class holds under a closed name, and
\* the second loop resolves for any name, the value the priorities give:
\* an extend's, else the class body's, else the earliest default's, else
\* the inherited one; so a default shadows an inherited attribute and
\* yields to the class body's. An extend of a merely inherited name does
\* not collide.
C15_EndpointPriority ==
    \A n \in Names :
        /\ (n \in DOMAIN pipelines /\ ~(pc = "failed" /\ err = PlumbingCollision(n))) =>
              /\ IsClosed(pipelines[n]) =>
                    n \in DOMAIN clsdict /\ clsdict[n] = PriorityEndpoint(n)
              /\ Resolved(n) => pipelines[n][1] = PriorityEndpoint(n)
        /\ \A j \in 1..Len(plugins) :
              ExtendsInherited(n, j) => err # PlumbingCollision(n)

\* One name is inherited and not of the class body: its default is the end
\* point. The other is of the class body, around which a plumbing method
\* is compiled, and its default went unused.
C15_Witness ==
    /\ pc = "done"
    /\ \E n \in DOMAIN bases \ DOMAIN dct :
          /\ Declares(1, n, {"default"})
          /\ ~HasExtend(n)
          /\ pipelines[n] = <<Raw(1, n)>>
    /\ \E m \in DOMAIN bases \cap DOMAIN dct :
          /\ Declares(1, m, Plumbings)
          /\ Declares(2, m, {"default"})
          /\ pipelines[m] = <<Raw(0, m)>>

\* ---- C16 --------------------------------------------------------------
\* The plumbing entries of a pipeline: all but the marker and the end point.
Entries(pipe) == {pipe[k] : k \in {k \in 1..Len(pipe) : pipe[k].kind \notin {"CLOSED", "raw"}}}

\* C16: the plumbing entries of every pipeline are plumbing methods only or
\* plumbing properties only, at every moment of the composition, and the
\* compilation never meets an entry it cannot plumb.
C16_PipelineOfOneKind ==
    /\ \A n \in DOMAIN pipelines :
          \/ \A e \in Entries(pipelines[n]) : isMethodType(e)
          \/ \A e \in Entries(pipelines[n]) : isplumbproperty(e)
    /\ err.kind # "TypeError"

\* A chain of two plumbing methods, compiled and installed.
C16_Witness ==
    /\ pc = "done"
    /\ \E n \in Names :
          /\ Declares(1, n, {"plumbmethod"}) /\ Declares(2, n, {"plumbmethod"})
          /\ clsdict[n].kind = "_entrance"
          /\ clsdict[n].next.kind = "_entrance"

\* ---- C17 --------------------------------------------------------------
\* The second loop has not passed n yet.
Collecting(n) == pc = "collect" \/ (pc = "resolve" /\ n \in todo)

\* What holds of the pipelines in every state.
PipelineShape ==
    \A n \in DOMAIN pipelines :
        /\ pipelines[n] # <<>>
        /\ \A k \in 1..Len(pipelines[n]) :
              pipelines[n][k] = CLOSED => k = Len(pipelines[n])
        /\ Collecting(n) =>
              /\ IsClosed(pipelines[n]) <=>
                    \E i \in 1..Len(plugins) : Declares(i, n, Extensions)
              /\ n \in DOMAIN clsdict => clsdict[n].kind = "raw"
        /\ pc = "done" => Len(pipelines[n]) = 1 /\ n \in DOMAIN clsdict

\* What holds of every step, for name n.
\* The plugins are exhausted, or the composition failed.
Past == pc \in {"resolve", "done", "failed"}

PipelineStep(n) ==
    /\ (pc = "collect" /\ n \in DOMAIN pipelines /\ IsClosed(pipelines[n]))
          => n \in DOMAIN pipelines' /\ IsClosed(pipelines'[n])
    /\ (n \notin todo /\ n \in todo')
          => pc = "collect" /\ pc' = "resolve" /\ todo' = DOMAIN pipelines
    /\ (n \in todo /\ n \notin todo')
          => pc = "resolve" /\ todo' = todo \ {n}
    /\ (Past /\ n \in DOMAIN pipelines /\ pipelines'[n] # pipelines[n])
          => n \in todo /\ n \notin todo'
    /\ (Past /\ n \in DOMAIN clsdict'
            /\ (n \in DOMAIN clsdict => clsdict'[n] # clsdict[n]))
          => n \in todo /\ n \notin todo'
    /\ Past => plugins' = plugins /\ pc' # "collect"

\* C17: the CLOSED marker occurs in a pipeline only as its last element; a
\* pipeline is closed, while the plugins are read, exactly when a default
\* or an extend was read for its name, and a closed one stays closed; no
\* pipeline of the mapping is empty; nothing is compiled while the plugins
\* are read, and once they are exhausted the second loop passes every name
\* of the mapping once, the only step that changes its pipeline or installs
\* its attribute.
C17_PipelineLifecycle ==
    /\ []PipelineShape
    /\ [][\A n \in Names : PipelineStep(n)]_vars

\* A plumbing method, then two defaults for one name: closed once, compiled.
C17_Witness ==
    \E n \in Names :
        /\ Declares(1, n, {"plumbmethod"})
        /\ Declares(2, n, {"default"})
        /\ Declares(3, n, {"default"})
        /\ pc = "done"
        /\ clsdict[n].kind = "_entrance"

\* ---- C18 --------------------------------------------------------------
\* C18: a name whose pipeline is closed is an attribute of the class's own
\* __dict__; and when the lookup of an end point fails, it fails for a name
\* with plumbing entries for which no default and no extend was read.
C18_ClosedHasOwnAttribute ==
    /\ \A n \in DOMAIN pipelines :
          IsClosed(pipelines[n]) => n \in DOMAIN clsdict
    /\ (pc = "failed" /\ err.kind = "AttributeError") =>
          /\ HasPlumbing(err.name)
          /\ \A i \in 1..Len(plugins) : ~Declares(i, err.name, Extensions)

\* The lookup failed for a name with a plumbing only, while the other name,
\* not of the class body nor of the bases, was closed by a default.
C18_Witness ==
    /\ pc = "failed"
    /\ err.kind = "AttributeError"
    /\ bases = <<>>
    /\ \E m \in Names \ (DOMAIN dct \cup {err.name}) :
          /\ Declares(1, m, {"default"})
          /\ m \in DOMAIN clsdict

\* ---- C19 --------------------------------------------------------------
\* What the declarations of plugins 1..k under the one name n, read in the
\* order of the plugins, make of that name: its pipeline (empty when the
\* mapping has none), its flag, the class's own attribute (Absent when it
\* has none), and whether one of them collided. Nothing of another name
\* and nothing of the order of the visits enters.
RECURSIVE NameState(_, _)
NameState(n, k) ==
    IF k = 0
    THEN [pipe |-> <<>>, flag |-> FALSE, failed |-> FALSE,
          val |-> IF n \in DOMAIN dct THEN Raw(0, n) ELSE Absent]
    ELSE LET s == NameState(n, k - 1)
             d == plugins[k][n]
             closed == s.pipe # <<>> /\ Last(s.pipe) = CLOSED
             shut == IF closed THEN s.pipe ELSE Append(s.pipe, CLOSED)
             ofproperties == s.pipe # <<>> /\ Last(s.pipe).kind = "plumbproperty"
             ofmethods == s.pipe # <<>> /\ Last(s.pipe).kind = "instancemethod"
         IN  IF s.failed \/ d = Absent THEN s
             ELSE IF d.kind = "extend"
             THEN IF s.val # Absent /\ ~s.flag
                  THEN [s EXCEPT !.pipe = shut, !.failed = TRUE]
                  ELSE [pipe |-> shut, flag |-> FALSE, failed |-> FALSE, val |-> d.attr]
             ELSE IF d.kind = "default"
             THEN IF s.val = Absent
                  THEN [pipe |-> shut, flag |-> TRUE, failed |-> FALSE, val |-> d.attr]
                  ELSE [s EXCEPT !.pipe = shut]
             ELSE IF closed THEN [s EXCEPT !.failed = TRUE]
             ELSE IF d.kind = "plumbmethod"
             THEN IF ofproperties THEN [s EXCEPT !.failed = TRUE]
                  ELSE [s EXCEPT !.pipe = Append(@, BoundMethod(k, d))]
             ELSE IF d.kind = "plumbproperty"
             THEN IF ofmethods THEN [s EXCEPT !.failed = TRUE]
                  ELSE [s EXCEPT !.pipe = Append(@, d)]
             ELSE s

\* What the composition holds of name n.
Projection(n) ==
    [pipe |-> IF n \in DOMAIN pipelines THEN pipelines[n] ELSE <<>>,
     flag |-> n \in defaulted,
     val |-> IF n \in DOMAIN clsdict THEN clsdict[n] ELSE Absent]

\* The second loop has not passed n, and no declaration of n collided.
Uncompiled(n) ==
    \/ pc = "collect"
    \/ pc = "resolve" /\ n \in todo
    \/ pc = "failed" /\ err.kind = "PlumbingCollision" /\ err.name # n
    \/ pc = "failed" /\ err.kind = "AttributeError" /\ n \in todo

\* The second loop has passed n and installed its chain.
Compiled(n) == pc \in {"resolve", "done"} /\ n \in DOMAIN pipelines /\ n \notin todo

\* The pipeline without its marker.
Plumbed(pipe) == SelectSeq(pipe, LAMBDA e : e # CLOSED)

\* The state of every name is the one its own declarations make of it.
StateByName ==
    \A n \in Names :
        LET s == NameState(n, Len(plugins))
            end_point == IF s.val # Absent THEN s.val ELSE Raw(-1, n)
        IN  /\ pc \in {"collect", "resolve", "done"} => ~s.failed
            /\ (pc = "failed" /\ err = PlumbingCollision(n)) => s.failed
            /\ (pc = "failed" /\ err = AttributeError(n)) =>
                  ~s.failed /\ s.pipe # <<>> /\ s.val = Absent /\ n \notin DOMAIN bases
            /\ Uncompiled(n) =>
                  ~s.failed /\ Projection(n) = [pipe |-> s.pipe, flag |-> s.flag, val |-> s.val]
            /\ Compiled(n) =>
                  /\ s.val # Absent \/ n \in DOMAIN bases
                  /\ pipelines[n] = <<end_point>>
                  /\ clsdict[n] = entrance(n, Append(Plumbed(s.pipe), end_point))

\* C19: whatever the order in which the attributes of a plugin are
\* visited, every name's pipeline, flag and attribute are the ones that the
\* declarations read under that name alone make of it, in the order of the
\* plugins; the composition fails exactly with a name whose own
\* declarations collide or yield no end point, and installs for every other
\* name the chain of its own entries around its own end point. Reading a
\* declaration of one name changes nothing of another name's.
C19_NamesCommute ==
    /\ []StateByName
    /\ [][\A n \in Names :
            Reads(n, Extensions \cup Plumbings \cup {"plain"})
                => \A m \in Names \ {n} : Projection(m)' = Projection(m)]_vars

\* The first plugin declares a plumbing under both names, the second closes
\* one of them, and both chains are installed.
C19_Witness ==
    /\ pc = "done"
    /\ \A n \in Names :
          /\ Declares(1, n, Plumbings)
          /\ clsdict[n].kind \in {"_entrance", "property"}
    /\ \E m \in Names : Declares(2, m, Extensions)

\* ---- C20 --------------------------------------------------------------
\* The declaration the step reads under n.
ReadDecl(n) == plugins'[Len(plugins)][n]

\* C20: a name flagged as defaulted is not of the class body, had no extend
\* read, and, while its pipeline is closed, the class holds under it the
\* value of a default that was read; the flag is set only by reading a
\* default for a name the class's own __dict__ lacks, which installs that
\* default's value, and removed only by reading an extend that does not
\* collide and installs its value.
C20_DefaultedFlag ==
    /\ [](\A n \in defaulted :
            /\ n \notin DOMAIN dct
            /\ ~HasExtend(n)
            /\ n \in DOMAIN pipelines
            /\ IsClosed(pipelines[n]) =>
                  \E i \in 1..Len(plugins) :
                      Declares(i, n, {"default"}) /\ clsdict[n] = plugins[i][n].attr)
    /\ [][\A n \in Names :
            /\ (n \notin defaulted /\ n \in defaulted') =>
                  /\ Reads(n, {"default"})
                  /\ n \notin DOMAIN clsdict
                  /\ clsdict'[n] = ReadDecl(n).attr
                  /\ pc' = "collect"
            /\ (n \in defaulted /\ n \notin defaulted') =>
                  /\ Reads(n, {"extend"})
                  /\ clsdict'[n] = ReadDecl(n).attr
                  /\ pc' = "collect"]_vars

\* One name defaulted and then extended, its flag gone; the other still
\* flagged and holding its default.
C20_Witness ==
    /\ pc = "collect"
    /\ \E n \in Names \ defaulted :
          /\ Declares(1, n, {"default"})
          /\ Declares(2, n, {"extend"})
          /\ clsdict[n] = Raw(2, n)
    /\ \E m \in defaulted :
          /\ Declares(1, m, {"default"})
          /\ clsdict[m] = Raw(1, m)

====
